---------------------------- MODULE Spec2Model ----------------------------
(***************************************************************************)
(* Model of rally/common/objects/task.py: the Task wrapper's status        *)
(* operations (update_status, set_validation_failed, set_failed, abort,    *)
(* delete) over the Record Store, and the aggregation of extend_results.   *)
(*                                                                         *)
(* The Record Store (rally.common.db) is not part of the source file; its  *)
(* operations are modelled from its contract (section 6 of the spec).      *)
(* Timestamps and durations are floats in the program and naturals here.   *)
(***************************************************************************)
EXTENDS Integers, Sequences, FiniteSets, TLC

(***************************************************************************)
(* Task statuses (consts.TaskStatus), as named in the Task docstring.      *)
(***************************************************************************)
INIT == "INIT"
VALIDATING == "VALIDATING"
VALIDATION_FAILED == "VALIDATION_FAILED"
VALIDATED == "VALIDATED"
RUNNING == "RUNNING"
FINISHED == "FINISHED"
ABORTING == "ABORTING"
SOFT_ABORTING == "SOFT_ABORTING"
ABORTED == "ABORTED"
CRASHED == "CRASHED"

Statuses ==
    {INIT, VALIDATING, VALIDATION_FAILED, VALIDATED, RUNNING, FINISHED,
     ABORTING, SOFT_ABORTING, ABORTED, CRASHED}

\* The status of an in-memory record that has no "status" key.
NoStatus == "no_status"

(***************************************************************************)
(* Task objects.  c1 and c2 wrap the one persisted task record (two        *)
(* processes holding the same uuid); tmp is a Task(temporary=True).        *)
(***************************************************************************)
Persisted == {"c1", "c2"}
Temporary == {"tmp"}
Tasks == Persisted \cup Temporary

\* The objects that also write statuses (the engine's); every object aborts.
Writers == {"c1"}

\* self.is_temporary, set once by __init__
is_temporary(c) == c \in Temporary

(***************************************************************************)
(* The allowed_statuses argument: None (not given) or a collection.        *)
(***************************************************************************)
None == [given |-> FALSE, set |-> {}]
Given(S) == [given |-> TRUE, set |-> S]

\* The collections a caller passes: sizes 0, 1 and 2.
AllowedInputs ==
    {None, Given({}), Given({RUNNING}), Given({ABORTING}),
     Given({RUNNING, SOFT_ABORTING})}

\* Python truthiness of allowed_statuses: None and an empty collection are falsy.
Truthy(allowed) == allowed.given /\ allowed.set # {}

(***************************************************************************)
(* Outcomes of a call: a normal return, or the exception it raised.        *)
(* abort raises RallyException twice, told apart by their messages.        *)
(***************************************************************************)
Ok == "ok"
NotImplementedForStage == "not_implemented_for_stage"
AlreadyFinished == "already_finished"
StatusConflict == "status_conflict"
NotFound == "not_found"
Pending == "pending"

VARIABLES
    dbStatus,   \* the Record Store: status of the persisted task record
    task,       \* task[c]: status held in c's in-memory record (self.task)
    pc,         \* pc[c]: "idle", or "update" inside abort after its read
    call,       \* call[c]: c's current or last call
    data,       \* workload["data"]: the iteration records
    info,       \* workload["info"]
    done,       \* extend_results has run
    merged,     \* merged_atomic of each iteration of the loop, in order
    iterations, \* workload["iterations"]
    yielded,    \* what each traversal of workload["iterations"] yielded
    reapplied   \* extend_results has run on a task it had already returned

vars ==
    <<dbStatus, task, pc, call, data, info, done, merged, iterations, yielded,
      reapplied>>
taskVars == <<dbStatus, task, pc, call>>
resultVars == <<data, info, done, merged, iterations, yielded, reapplied>>

NoCall ==
    [op |-> "none", soft |-> FALSE, current_status |-> NoStatus,
     result |-> Ok, db |-> <<>>]

(***************************************************************************)
(* Record Store contract.  A store operation on the uuid of a temporary    *)
(* task finds no record.                                                   *)
(***************************************************************************)
\* db.task_get_status(uuid)
task_get_status(c) ==
    IF is_temporary(c)
    THEN [result |-> NotFound, status |-> NoStatus]
    ELSE [result |-> Ok, status |-> dbStatus]

\* db.task_update(uuid, values): unconditional; returns the updated record
task_update(c, status) ==
    IF is_temporary(c)
    THEN [result |-> NotFound, stored |-> dbStatus, record |-> NoStatus]
    ELSE [result |-> Ok, stored |-> status, record |-> status]

\* db.task_update_status(uuid, status, allowed): atomic compare-and-set
task_update_status(c, status, allowed) ==
    IF is_temporary(c)
    THEN [result |-> NotFound, stored |-> dbStatus]
    ELSE IF dbStatus \in allowed
         THEN [result |-> Ok, stored |-> status]
         ELSE [result |-> StatusConflict, stored |-> dbStatus]

\* db.task_delete(uuid, status) on a uuid without a record
task_delete(c) == [result |-> NotFound, stored |-> dbStatus]

(***************************************************************************)
(* Task._update(values): the effect of writing a status.                   *)
(***************************************************************************)
_update(c, status) ==
    IF ~is_temporary(c)
    THEN LET r == task_update(c, status)
         IN  [result |-> r.result, stored |-> r.stored,
              memory |-> r.record, db |-> <<"task_update">>]
    ELSE [result |-> Ok, stored |-> dbStatus, memory |-> status, db |-> <<>>]

(***************************************************************************)
(* Task.update_status(status, allowed_statuses): the effect.               *)
(***************************************************************************)
MutUpdateStatusUnguarded(c, status, allowed) == _update(c, status)
MutUpdateStatusOverwrite(c, status, allowed) ==
    IF Truthy(allowed)
    THEN [result |-> Ok, stored |-> status, memory |-> task[c],
          db |-> <<"task_update_status">>]
    ELSE _update(c, status)
MutUpdateStatusRefreshes(c, status, allowed) ==
    IF Truthy(allowed)
    THEN LET r == task_update_status(c, status, allowed.set)
         IN  [result |-> r.result, stored |-> r.stored, memory |-> r.stored,
              db |-> <<"task_update_status">>]
    ELSE _update(c, status)
update_status(c, status, allowed) ==
    IF Truthy(allowed)
    THEN LET r == task_update_status(c, status, allowed.set)
         IN  [result |-> r.result, stored |-> r.stored, memory |-> task[c],
              db |-> <<"task_update_status">>]
    ELSE _update(c, status)

(***************************************************************************)
(* Task.abort(soft)                                                        *)
(***************************************************************************)
MutNotImplementedOnlyValidating == {VALIDATING}
MutNotImplementedWithValidated == {VALIDATING, INIT, VALIDATED}
NOT_IMPLEMENTED_STAGES_FOR_ABORT == {VALIDATING, INIT}

MutFinishedWithoutAborted == {FINISHED, CRASHED}
FinishedStatuses == {FINISHED, CRASHED, ABORTED}

MutNewStatusAlwaysHard(soft) == ABORTING
AbortNewStatus(soft) == IF soft THEN SOFT_ABORTING ELSE ABORTING

MutAllowedOnlyRunning == Given({RUNNING})
MutAllowedWithAborting == Given({RUNNING, SOFT_ABORTING, ABORTING})
AbortAllowedStatuses == Given({RUNNING, SOFT_ABORTING})

\* abort up to its update_status call: the status read and the two checks
AbortRead(c, soft) ==
    /\ pc[c] = "idle"
    /\ LET got == task_get_status(c)
           current_status == got.status
           outcome ==
               IF got.result # Ok THEN got.result
               ELSE IF current_status \in NOT_IMPLEMENTED_STAGES_FOR_ABORT
                    THEN NotImplementedForStage
               ELSE IF current_status \in FinishedStatuses
                    THEN AlreadyFinished
               ELSE Pending
       IN  /\ call' = [call EXCEPT ![c] =
                          [op |-> "abort", soft |-> soft,
                           current_status |-> current_status,
                           result |-> outcome,
                           db |-> <<"task_get_status">>]]
           /\ pc' = [pc EXCEPT ![c] =
                        IF outcome = Pending THEN "update" ELSE "idle"]
    /\ UNCHANGED <<dbStatus, task, resultVars>>

\* abort's update_status(new_status, allowed_statuses=(RUNNING, SOFT_ABORTING))
AbortUpdate(c) ==
    /\ pc[c] = "update"
    /\ LET new_status == AbortNewStatus(call[c].soft)
           r == update_status(c, new_status, AbortAllowedStatuses)
       IN  /\ dbStatus' = r.stored
           /\ task' = [task EXCEPT ![c] = r.memory]
           /\ call' = [call EXCEPT ![c].result = r.result,
                                   ![c].db = call[c].db \o r.db]
    /\ pc' = [pc EXCEPT ![c] = "idle"]
    /\ UNCHANGED resultVars

(***************************************************************************)
(* The other status operations, each one call on the store or the record.  *)
(***************************************************************************)
Finish(c, op, r) ==
    /\ pc[c] = "idle"
    /\ dbStatus' = r.stored
    /\ task' = [task EXCEPT ![c] = r.memory]
    /\ call' = [call EXCEPT ![c] =
                   [op |-> op, soft |-> FALSE, current_status |-> NoStatus,
                    result |-> r.result, db |-> r.db]]
    /\ UNCHANGED <<pc, resultVars>>

UpdateStatus(c, status, allowed) ==
    Finish(c, "update_status", update_status(c, status, allowed))

SetValidationFailed(c) ==
    Finish(c, "set_validation_failed", _update(c, VALIDATION_FAILED))

SetFailed(c) ==
    Finish(c, "set_failed", _update(c, CRASHED))

Delete(c) ==
    LET r == task_delete(c)
    IN  Finish(c, "delete",
               [result |-> r.result, stored |-> r.stored, memory |-> task[c],
                db |-> <<"task_delete">>])

(***************************************************************************)
(* Specifications                                                          *)
(***************************************************************************)
InitTask ==
    /\ dbStatus = INIT
    /\ task = [c \in Tasks |-> IF is_temporary(c) THEN NoStatus ELSE INIT]
    /\ pc = [c \in Tasks |-> "idle"]
    /\ call = [c \in Tasks |-> NoCall]

InitNoResults ==
    /\ data = <<>>
    /\ info = <<>>
    /\ done = FALSE
    /\ merged = <<>>
    /\ iterations = <<>>
    /\ yielded = <<>>
    /\ reapplied = FALSE

Init == InitTask /\ InitNoResults

\* Two Task objects of the persisted task, called concurrently.
Next ==
    \/ \E c \in Persisted, soft \in BOOLEAN : AbortRead(c, soft)
    \/ \E c \in Persisted : AbortUpdate(c)
    \/ \E c \in Writers, s \in Statuses, a \in AllowedInputs :
           UpdateStatus(c, s, a)
    \/ \E c \in Writers : SetValidationFailed(c)
    \/ \E c \in Writers : SetFailed(c)

Spec == Init /\ [][Next]_vars

\* One temporary Task object, beside the persisted task that its own object
\* keeps updating.  abort on the temporary object ends at its status read
\* (the store holds no record of its uuid), so AbortUpdate never runs for it.
NextTemp ==
    \/ \E c \in Temporary, soft \in BOOLEAN : AbortRead(c, soft)
    \/ \E c \in Temporary, s \in Statuses, a \in AllowedInputs :
           UpdateStatus(c, s, a)
    \/ \E c \in Temporary : SetValidationFailed(c)
    \/ \E c \in Temporary : SetFailed(c)
    \/ \E c \in Temporary : Delete(c)
    \/ \E c \in Writers, s \in Statuses : UpdateStatus(c, s, None)

SpecTemp == Init /\ [][NextTemp]_vars

\* The two Task objects of a persisted task in any stored status, each
\* calling abort once, and no other writer of the status.
InitRace ==
    /\ dbStatus \in Statuses
    /\ task = [c \in Tasks |-> IF is_temporary(c) THEN NoStatus ELSE dbStatus]
    /\ pc = [c \in Tasks |-> "idle"]
    /\ call = [c \in Tasks |-> NoCall]
    /\ InitNoResults

NextRace ==
    \/ \E c \in Persisted, soft \in BOOLEAN :
           call[c].op = "none" /\ AbortRead(c, soft)
    \/ \E c \in Persisted : AbortUpdate(c)

SpecRace == InitRace /\ [][NextRace]_vars

\* The state graph of the Task class's documentation, as its set of edges
StateGraph ==
    {<<INIT, VALIDATING>>,
     <<VALIDATING, VALIDATION_FAILED>>, <<VALIDATING, ABORTING>>,
     <<VALIDATING, SOFT_ABORTING>>, <<VALIDATING, CRASHED>>,
     <<VALIDATING, VALIDATED>>,
     <<VALIDATED, RUNNING>>,
     <<RUNNING, FINISHED>>, <<RUNNING, ABORTING>>,
     <<RUNNING, SOFT_ABORTING>>, <<RUNNING, CRASHED>>,
     <<ABORTING, ABORTED>>, <<SOFT_ABORTING, ABORTED>>}

(***************************************************************************)
(* Task.extend_results: the aggregation over one workload's data.          *)
(* An iteration record is a dict: timestamp, duration (a number or None),  *)
(* error (empty, or the three strings type, message, traceback),           *)
(* atomic_actions, and optionally output and the legacy scenario_output.   *)
(***************************************************************************)
MaxLen == 2
MaxTimestamp == 2
MaxDuration == 2
MaxActions == 2
MaxMergeActions == 3
MaxTraversals == 2

\* itr["duration"] = None
NoDuration == -1

NoError == <<>>
SomeError == <<"E", "m", "tb">>

\* the records that differ in their timing fields only
IterationRecords ==
    [timestamp : 0..MaxTimestamp,
     duration : {NoDuration} \cup (0..MaxDuration),
     error : {NoError, SomeError},
     atomic_actions : {<<>>}]

RECURSIVE SeqsUpTo(_, _)
SeqsUpTo(S, n) ==
    IF n = 0 THEN {<<>>}
    ELSE LET shorter == SeqsUpTo(S, n - 1)
         IN  shorter \cup {Append(q, x) : q \in {r \in shorter : Len(r) = n - 1},
                                         x \in S}

\* dict operations: key in d, d[key] = value, del d[key]
HasKey(d, key) == key \in DOMAIN d
SetKey(d, key, value) ==
    [k \in DOMAIN d \cup {key} |-> IF k = key THEN value ELSE d[k]]
DelKey(d, key) == [k \in DOMAIN d \ {key} |-> d[k]]

\* atomic actions {name, started_at, finished_at}
Action(name, started_at, finished_at) ==
    [name |-> name, started_at |-> started_at, finished_at |-> finished_at]
AtomicActions == {Action("a", 0, 1), Action("a", 1, 3), Action("b", 0, 1)}
MergeActions == AtomicActions \cup {Action("b", 1, 3)}

\* the records that differ in their atomic actions only
AtomicRecords ==
    [timestamp : {1}, duration : {1}, error : {NoError},
     atomic_actions : SeqsUpTo(AtomicActions, MaxActions)]
MergeRecords ==
    [timestamp : {1}, duration : {1}, error : {NoError},
     atomic_actions : SeqsUpTo(MergeActions, MaxMergeActions)]

\* failed records, of at most one atomic action
FailedAtomicRecords ==
    [timestamp : {1}, duration : {1}, error : {SomeError},
     atomic_actions : SeqsUpTo(AtomicActions, 1)]

\* output payloads and the legacy scenario_output
EmptyDict == [k \in {} |-> 0]
LegacyData == [k \in {"x"} |-> 1]
SomeOutput ==
    [additive |-> <<[title |-> "t", chart_plugin |-> "Lines",
                     data |-> <<<<"k", 1>>>>]>>,
     complete |-> <<>>]
OutputShapes ==
    {EmptyDict,
     [k \in {"scenario_output"} |-> [data |-> EmptyDict]],
     [k \in {"scenario_output"} |-> [data |-> LegacyData]],
     [k \in {"output"} |-> SomeOutput],
     [k \in {"output", "scenario_output"} |->
         IF k = "output" THEN SomeOutput ELSE [data |-> LegacyData]],
     [k \in {"output", "scenario_output"} |->
         IF k = "output" THEN SomeOutput ELSE [data |-> EmptyDict]]}

\* the records that differ in timestamp, output and scenario_output only
OutputRecords ==
    {[timestamp |-> t, duration |-> 1, error |-> NoError,
      atomic_actions |-> <<>>] @@ shape :
        t \in 0..MaxTimestamp, shape \in OutputShapes}

\* Python truthiness of a number or None: `not x`
not(x) == x = 0 \/ x = NoDuration

\* `x or 0`
or0(x) == IF not(x) THEN 0 ELSE x

(***************************************************************************)
(* _merge_atomic: an OrderedDict name -> {duration, count}, kept as the    *)
(* sequence of its entries in insertion order.                             *)
(***************************************************************************)
\* the position of name's entry in an OrderedDict, 0 when it has none
IndexOf(entries, name) ==
    IF \E i \in DOMAIN entries : entries[i].name = name
    THEN CHOOSE i \in DOMAIN entries : entries[i].name = name
    ELSE 0

\* one pass of _merge_atomic's loop
MutMergeStepKeepsFirst(merged_atomic, action) ==
    IF IndexOf(merged_atomic, action.name) = 0
    THEN Append(merged_atomic,
                [name |-> action.name,
                 duration |-> action.finished_at - action.started_at,
                 count |-> 1])
    ELSE merged_atomic
MergeStep(merged_atomic, action) ==
    LET name == action.name
        duration == action.finished_at - action.started_at
        i == IndexOf(merged_atomic, name)
    IN  IF i = 0
        THEN Append(merged_atomic,
                    [name |-> name, duration |-> duration, count |-> 1])
        ELSE [merged_atomic EXCEPT ![i].duration = @ + duration,
                                   ![i].count = @ + 1]

RECURSIVE MergeLoop(_, _)
MergeLoop(merged_atomic, atomic_actions) ==
    IF atomic_actions = <<>> THEN merged_atomic
    ELSE MergeLoop(MergeStep(merged_atomic, Head(atomic_actions)),
                   Tail(atomic_actions))

_merge_atomic(atomic_actions) == MergeLoop(<<>>, atomic_actions)

(***************************************************************************)
(* The merge of one iteration's merged_atomic into the workload's atomic,  *)
(* an OrderedDict name -> {min_duration, max_duration, count}.             *)
(***************************************************************************)
MutAtomicStepMergesAll(atomic, value) ==
    LET i == IndexOf(atomic, value.name)
    IN  IF i = 0
        THEN Append(atomic,
                    [name |-> value.name, min_duration |-> value.duration,
                     max_duration |-> value.duration, count |-> value.count])
        ELSE [atomic EXCEPT
                 ![i].count = IF value.count > @ THEN value.count ELSE @,
                 ![i].min_duration =
                     IF value.duration < @ THEN value.duration ELSE @,
                 ![i].max_duration =
                     IF value.duration > @ THEN value.duration ELSE @]
MutAtomicStepLastWins(atomic, value) ==
    LET i == IndexOf(atomic, value.name)
        entry == [name |-> value.name, min_duration |-> value.duration,
                  max_duration |-> value.duration, count |-> value.count]
    IN  IF i = 0 THEN Append(atomic, entry)
        ELSE IF value.count >= atomic[i].count
        THEN [atomic EXCEPT ![i] = entry]
        ELSE atomic
AtomicStep(atomic, value) ==
    LET name == value.name
        duration == value.duration
        count == value.count
        i == IndexOf(atomic, name)
        entry == [name |-> name, min_duration |-> duration,
                  max_duration |-> duration, count |-> count]
    IN  IF i = 0 THEN Append(atomic, entry)
        ELSE IF count > atomic[i].count THEN [atomic EXCEPT ![i] = entry]
        ELSE IF count = atomic[i].count
        THEN [atomic EXCEPT
                 ![i].min_duration = IF duration < @ THEN duration ELSE @,
                 ![i].max_duration = IF duration > @ THEN duration ELSE @]
        ELSE atomic

RECURSIVE AtomicLoop(_, _)
AtomicLoop(atomic, merged_atomic) ==
    IF merged_atomic = <<>> THEN atomic
    ELSE AtomicLoop(AtomicStep(atomic, Head(merged_atomic)),
                    Tail(merged_atomic))

(***************************************************************************)
(* The normalisation of itr["output"], done on the record itself.          *)
(***************************************************************************)
\* dict.items(): the key/value pairs
items(d) == {<<k, d[k]>> : k \in DOMAIN d}

EmptyOutput == [additive |-> <<>>, complete |-> <<>>]
ScenarioOutputChart(legacy) ==
    [items |-> items(legacy), title |-> "Scenario output",
     description |-> "", chart |-> "OutputStackedAreaChart"]

MutNormalizeKeepsLegacy(itr) ==
    IF ~HasKey(itr, "output")
    THEN IF HasKey(itr, "scenario_output")
            /\ DOMAIN itr.scenario_output.data # {}
         THEN SetKey(itr, "output",
                     [additive |->
                          <<ScenarioOutputChart(itr.scenario_output.data)>>,
                      complete |-> <<>>])
         ELSE SetKey(itr, "output", EmptyOutput)
    ELSE itr
MutNormalizeAlwaysConverts(itr) ==
    LET out == IF HasKey(itr, "output") THEN itr.output ELSE EmptyOutput
    IN  IF HasKey(itr, "scenario_output")
           /\ DOMAIN itr.scenario_output.data # {}
        THEN DelKey(SetKey(itr, "output",
                           [out EXCEPT !.additive = Append(@,
                               ScenarioOutputChart(itr.scenario_output.data))]),
                    "scenario_output")
        ELSE SetKey(itr, "output", out)
MutNormalizeAppendsAgain(itr) ==
    LET out == IF HasKey(itr, "output") THEN itr.output ELSE EmptyOutput
    IN  IF HasKey(itr, "scenario_output")
           /\ DOMAIN itr.scenario_output.data # {}
        THEN SetKey(itr, "output",
                    [out EXCEPT !.additive = Append(@,
                        ScenarioOutputChart(itr.scenario_output.data))])
        ELSE SetKey(itr, "output", out)
NormalizeOutput(itr) ==
    IF ~HasKey(itr, "output")
    THEN IF HasKey(itr, "scenario_output")
            /\ DOMAIN itr.scenario_output.data # {}
         THEN DelKey(SetKey(itr, "output",
                            [additive |->
                                 <<ScenarioOutputChart(
                                       itr.scenario_output.data)>>,
                             complete |-> <<>>]),
                     "scenario_output")
         ELSE SetKey(itr, "output", EmptyOutput)
    ELSE itr

(***************************************************************************)
(* The loop over workload["data"]                                          *)
(***************************************************************************)
\* the locals before the loop over workload["data"]
LoopStart ==
    [tstamp_start |-> 0, min_duration |-> 0, max_duration |-> 0,
     iterations_failed |-> 0, atomic |-> <<>>]

\* the running tstamp_start after one more iteration
NextTstampStart(tstamp_start, itr) ==
    IF not(tstamp_start) \/ itr.timestamp < tstamp_start
    THEN itr.timestamp
    ELSE tstamp_start

\* the running min_duration after one more successful iteration
NextMinDuration(min_duration, duration) ==
    IF not(min_duration) \/ duration < min_duration
    THEN duration
    ELSE min_duration

\* the running max_duration after one more successful iteration
NextMaxDuration(max_duration, duration) ==
    IF not(max_duration) \/ duration > max_duration
    THEN duration
    ELSE max_duration

\* one pass of the loop body over itr
MutLoopBodyCountsEvery(acc, itr) ==
    [acc EXCEPT !.iterations_failed = @ + 1]
MutLoopBodyIgnoresError(acc, itr) ==
    LET duration == or0(itr.duration)
    IN  [acc EXCEPT
            !.tstamp_start = NextTstampStart(@, itr),
            !.atomic = AtomicLoop(@, _merge_atomic(itr.atomic_actions)),
            !.iterations_failed = IF itr.error # NoError THEN @ + 1 ELSE @,
            !.min_duration = NextMinDuration(@, duration),
            !.max_duration = NextMaxDuration(@, duration)]
LoopBody(acc, itr) ==
    LET tstamp_start == NextTstampStart(acc.tstamp_start, itr)
        atomic == AtomicLoop(acc.atomic, _merge_atomic(itr.atomic_actions))
    IN  IF itr.error # NoError
        THEN [acc EXCEPT !.tstamp_start = tstamp_start,
                         !.atomic = atomic,
                         !.iterations_failed = @ + 1]
        ELSE LET duration == or0(itr.duration)
             IN  [acc EXCEPT
                     !.tstamp_start = tstamp_start,
                     !.atomic = atomic,
                     !.min_duration = NextMinDuration(@, duration),
                     !.max_duration = NextMaxDuration(@, duration)]

RECURSIVE Loop(_, _)
Loop(acc, records) ==
    IF records = <<>> THEN acc
    ELSE Loop(LoopBody(acc, Head(records)), Tail(records))

\* workload["info"] as extend_results assigns it
WorkloadInfo(records) ==
    LET acc == Loop(LoopStart, records)
    IN  [atomic |-> acc.atomic,
         iterations_count |-> Len(records),
         iterations_failed |-> acc.iterations_failed,
         min_duration |-> acc.min_duration,
         max_duration |-> acc.max_duration,
         tstamp_start |-> acc.tstamp_start]

(***************************************************************************)
(* workload["iterations"]                                                  *)
(***************************************************************************)
\* q with x put after the last element whose timestamp is not greater
InsertByTimestamp(q, x) ==
    LET before == {i \in DOMAIN q : q[i].timestamp <= x.timestamp}
        n == IF before = {} THEN 0
             ELSE CHOOSE i \in before : \A j \in before : j <= i
    IN  SubSeq(q, 1, n) \o <<x>> \o SubSeq(q, n + 1, Len(q))

RECURSIVE SortLoop(_, _)
SortLoop(out, records) ==
    IF records = <<>> THEN out
    ELSE SortLoop(InsertByTimestamp(out, Head(records)), Tail(records))

\* sorted(workload["data"], key=lambda itr: itr["timestamp"]): stable
MutSortedUnsorted(records) == records
sorted(records) == SortLoop(<<>>, records)

\* list(iterations) and iter(iterations)
list(records) == [kind |-> "list", records |-> records, pos |-> 0]
iter(records) == [kind |-> "iterator", records |-> records, pos |-> 0]

MutIterationsAlwaysIterator(serializable, records) == iter(records)
MakeIterations(serializable, records) ==
    IF serializable THEN list(records) ELSE iter(records)

ExtendResults(serializable) ==
    /\ LET normalized == [i \in DOMAIN data |-> NormalizeOutput(data[i])]
       IN  /\ data' = normalized
           /\ iterations' = MakeIterations(serializable, sorted(normalized))
    /\ merged' = [i \in DOMAIN data |-> _merge_atomic(data[i].atomic_actions)]
    /\ info' = WorkloadInfo(data)
    /\ yielded' = <<>>
    /\ done' = TRUE
    /\ reapplied' = done
    /\ UNCHANGED taskVars

\* One full traversal of workload["iterations"] by its consumer: a list
\* starts a new pass each time, an iterator goes on from where it stopped.
Traverse ==
    /\ done
    /\ Len(yielded) < MaxTraversals
    /\ IF iterations.kind = "list"
       THEN /\ yielded' = Append(yielded, iterations.records)
            /\ UNCHANGED iterations
       ELSE /\ yielded' = Append(yielded,
                                 SubSeq(iterations.records, iterations.pos + 1,
                                        Len(iterations.records)))
            /\ iterations' = [iterations EXCEPT !.pos = Len(iterations.records)]
    /\ UNCHANGED <<data, info, done, merged, reapplied, taskVars>>

InitResultsFrom(Records) ==
    /\ data \in SeqsUpTo(Records, MaxLen)
    /\ info = <<>>
    /\ done = FALSE
    /\ merged = <<>>
    /\ iterations = <<>>
    /\ yielded = <<>>
    /\ reapplied = FALSE

InitResults == InitResultsFrom(IterationRecords)

InitER == InitTask /\ InitResults

\* extend_results called once
NextER == \E serializable \in BOOLEAN : ~done /\ ExtendResults(serializable)

\* data whose records differ in their timing fields
SpecER == InitER /\ [][NextER]_vars

\* data whose records differ in their atomic actions
InitAtomic == InitTask /\ InitResultsFrom(AtomicRecords)
SpecAtomic == InitAtomic /\ [][NextER]_vars

\* data whose records differ in their atomic actions and in having failed
InitOrder == InitTask /\ InitResultsFrom(AtomicRecords \cup FailedAtomicRecords)
SpecOrder == InitOrder /\ [][NextER]_vars

\* one record, of up to MaxMergeActions atomic actions
InitMerge ==
    /\ InitTask
    /\ data \in {<<itr>> : itr \in MergeRecords}
    /\ info = <<>>
    /\ done = FALSE
    /\ merged = <<>>
    /\ iterations = <<>>
    /\ yielded = <<>>
    /\ reapplied = FALSE
SpecMerge == InitMerge /\ [][NextER]_vars

\* data whose records differ in timestamp, output and scenario_output,
\* and the consumer of workload["iterations"]
InitOutput == InitTask /\ InitResultsFrom(OutputRecords)
NextOutput ==
    \/ \E serializable \in BOOLEAN : ~done /\ ExtendResults(serializable)
    \/ Traverse
SpecOutput == InitOutput /\ [][NextOutput]_vars

\* extend_results called again and again on the task it returned, over data
\* whose records differ in output and scenario_output or have failed
InitAgain == InitTask /\ InitResultsFrom(OutputRecords \cup FailedAtomicRecords)
NextAgain == \E serializable \in BOOLEAN : ExtendResults(serializable)
SpecAgain == InitAgain /\ [][NextAgain]_vars

(***************************************************************************)
(* Properties of the status operations                                     *)
(***************************************************************************)
Last(q) == q[Len(q)]
AbortPrecondition == {RUNNING, SOFT_ABORTING}

\* C1: abort on a task whose stored status is INIT or VALIDATING ends, for
\* soft and for hard abort, in the unsupported-stage error at its status
\* read: the call is over, only task_get_status was invoked and the stored
\* status is unchanged.
C1_AbortUnsupportedStage ==
    [][\A c \in Persisted, soft \in BOOLEAN :
          (AbortRead(c, soft) /\ dbStatus \in {INIT, VALIDATING})
          => /\ call'[c].result = NotImplementedForStage
             /\ pc'[c] = "idle"
             /\ call'[c].db = <<"task_get_status">>
             /\ dbStatus' = dbStatus]_vars

C1_Witness ==
    \E c \in Persisted :
        /\ call[c].op = "abort" /\ call[c].soft
        /\ call[c].current_status = VALIDATING
        /\ call[c].result = NotImplementedForStage
        /\ dbStatus = VALIDATING

\* C2: abort on a task whose stored status is FINISHED, CRASHED or ABORTED
\* ends, for soft and for hard abort, in the already-finished error (not
\* the unsupported-stage error) at its status read, and the stored status
\* is unchanged.
C2_AbortAlreadyFinished ==
    [][\A c \in Persisted, soft \in BOOLEAN :
          (AbortRead(c, soft) /\ dbStatus \in {FINISHED, CRASHED, ABORTED})
          => /\ call'[c].result = AlreadyFinished
             /\ call'[c].result # NotImplementedForStage
             /\ pc'[c] = "idle"
             /\ call'[c].db = <<"task_get_status">>
             /\ dbStatus' = dbStatus]_vars

C2_Witness ==
    \E c \in Persisted :
        /\ call[c].op = "abort" /\ ~call[c].soft
        /\ call[c].current_status = ABORTED
        /\ call[c].result = AlreadyFinished
        /\ dbStatus = ABORTED

\* C3: when abort has read RUNNING, its conditional update changes the
\* stored status to SOFT_ABORTING (soft) or ABORTING (hard) and succeeds if
\* the stored status is RUNNING or SOFT_ABORTING at that moment, and
\* otherwise fails and leaves the stored status as it is; it never writes
\* any other status.
C3_AbortFromRunning ==
    [][\A c \in Persisted :
          (AbortUpdate(c) /\ call[c].current_status = RUNNING)
          => LET new == IF call[c].soft THEN SOFT_ABORTING ELSE ABORTING
             IN  IF dbStatus \in AbortPrecondition
                 THEN dbStatus' = new /\ call'[c].result = Ok
                 ELSE dbStatus' = dbStatus /\ call'[c].result = StatusConflict
       ]_vars

C3_Witness ==
    \E c \in Persisted :
        /\ call[c].op = "abort" /\ call[c].soft /\ pc[c] = "idle"
        /\ call[c].current_status = RUNNING
        /\ call[c].result = Ok
        /\ dbStatus = SOFT_ABORTING

\* C4: an abort that read RUNNING or SOFT_ABORTING and finds the stored
\* status still as it read it succeeds and stores SOFT_ABORTING (soft) or
\* ABORTING (hard): a soft abort of a soft-aborting task succeeds and leaves
\* SOFT_ABORTING, a hard abort of it escalates to ABORTING.
C4_SoftAbortIdempotentAndEscalates ==
    [][\A c \in Persisted :
          (/\ AbortUpdate(c)
           /\ call[c].current_status \in {RUNNING, SOFT_ABORTING}
           /\ dbStatus = call[c].current_status)
          => /\ call'[c].result = Ok
             /\ dbStatus' = IF call[c].soft THEN SOFT_ABORTING ELSE ABORTING
       ]_vars

\* Two consecutive soft aborts of a RUNNING task, both returned normally.
C4_Witness ==
    \E c, d \in Persisted :
        /\ c # d /\ pc[c] = "idle" /\ pc[d] = "idle"
        /\ call[c].op = "abort" /\ call[c].soft
        /\ call[c].current_status = RUNNING /\ call[c].result = Ok
        /\ call[d].op = "abort" /\ call[d].soft
        /\ call[d].current_status = SOFT_ABORTING /\ call[d].result = Ok
        /\ dbStatus = SOFT_ABORTING

\* A hard abort of a soft-aborting task, returned normally.
C4_EscalationReached ==
    \E c \in Persisted :
        /\ pc[c] = "idle" /\ call[c].op = "abort" /\ ~call[c].soft
        /\ call[c].current_status = SOFT_ABORTING /\ call[c].result = Ok
        /\ dbStatus = ABORTING

\* C5: when the stored status is outside {RUNNING, SOFT_ABORTING} at the
\* moment of abort's conditional update (another actor wrote it after
\* abort's read), the update fails, abort ends in the conflict error after
\* that single attempt, and the stored status stays as the other actor
\* wrote it.
C5_AbortLosesRace ==
    [][\A c \in Persisted :
          (AbortUpdate(c) /\ dbStatus \notin AbortPrecondition)
          => /\ call'[c].result = StatusConflict
             /\ pc'[c] = "idle"
             /\ call'[c].db = <<"task_get_status", "task_update_status">>
             /\ dbStatus' = dbStatus]_vars

C5_Witness ==
    \E c \in Persisted :
        /\ call[c].op = "abort" /\ pc[c] = "idle"
        /\ call[c].current_status = RUNNING
        /\ call[c].result = StatusConflict
        /\ dbStatus = FINISHED

\* C6: update_status called with an allowed set of any size, the empty one
\* included, changes the stored status only if the stored status is in the
\* set, and otherwise fails and leaves it unchanged.
C6_GivenAllowedSetIsCompareAndSet ==
    [][\A c \in Writers, s \in Statuses, a \in AllowedInputs :
          (UpdateStatus(c, s, a) /\ a.given)
          => IF dbStatus \in a.set
             THEN dbStatus' = s /\ call'[c].result = Ok
             ELSE dbStatus' = dbStatus /\ call'[c].result = StatusConflict
       ]_vars

\* C7 as claimed: every operation of Task that changes the stored status of
\* the persisted task does so through the conditional update.
C7_EveryChangeIsConditional ==
    [][\A c \in Persisted :
          (/\ \/ AbortUpdate(c)
              \/ SetValidationFailed(c)
              \/ SetFailed(c)
              \/ \E s \in Statuses, a \in AllowedInputs : UpdateStatus(c, s, a)
           /\ dbStatus' # dbStatus)
          => Last(call'[c].db) = "task_update_status"]_vars

\* C7 as amended: abort, and update_status given a non-empty allowed set,
\* change the stored status only through the conditional update and only
\* from a status of the allowed set; update_status without an allowed set
\* (or with an empty one), set_validation_failed and set_failed write the
\* store unconditionally, whatever status it holds.
C7_OnlyGuardedCallsAreConditional ==
    [][\A c \in Persisted :
          /\ (AbortUpdate(c) /\ dbStatus' # dbStatus)
             => /\ Last(call'[c].db) = "task_update_status"
                /\ dbStatus \in AbortPrecondition
          /\ \A s \in Statuses, a \in AllowedInputs :
                (call'[c].op = "update_status" /\ UpdateStatus(c, s, a))
                => IF a.given /\ a.set # {}
                   THEN /\ Last(call'[c].db) = "task_update_status"
                        /\ dbStatus' # dbStatus => dbStatus \in a.set
                   ELSE /\ call'[c].db = <<"task_update">>
                        /\ dbStatus' = s
          /\ (call'[c].op = "set_validation_failed" /\ SetValidationFailed(c))
             => call'[c].db = <<"task_update">> /\ dbStatus' = VALIDATION_FAILED
          /\ (call'[c].op = "set_failed" /\ SetFailed(c))
             => call'[c].db = <<"task_update">> /\ dbStatus' = CRASHED
       ]_vars

\* A hard abort succeeded and set_failed then overwrote ABORTING.
C7_Witness ==
    \E c, d \in Persisted :
        /\ c # d
        /\ call[c].op = "abort" /\ ~call[c].soft /\ pc[c] = "idle"
        /\ call[c].result = Ok
        /\ call[d].op = "set_failed" /\ call[d].result = Ok
        /\ dbStatus = CRASHED

\* C8: no operation on a temporary Task object invokes a Record Store
\* operation.
C8_TemporaryNeverTouchesStore ==
    \A c \in Temporary : call[c].db = <<>>

(***************************************************************************)
(* Properties of extend_results                                            *)
(***************************************************************************)
Indices(q) == 1..Len(q)
SetMin(S) == CHOOSE x \in S : \A y \in S : x <= y
SetMax(S) == CHOOSE x \in S : \A y \in S : x >= y

Timestamps(records) == {records[i].timestamp : i \in Indices(records)}
SuccessfulDurations(records) ==
    {or0(records[i].duration) :
        i \in {j \in Indices(records) : records[j].error = NoError}}

\* C9: after extend_results, info.tstamp_start is the minimum timestamp of
\* the records of data, whatever their order and values (0 included), and 0
\* when data is empty.
C9_TstampStartIsMinimum ==
    done => info.tstamp_start =
                IF data = <<>> THEN 0 ELSE SetMin(Timestamps(data))

\* C10: after extend_results, info.min_duration and info.max_duration are
\* the minimum and the maximum of the durations (None counted as 0) of the
\* records whose error is empty, whatever their order and values (0
\* included), and both are 0 when no record has an empty error.
C10_MinMaxOfSuccessfulDurations ==
    done =>
        LET ds == SuccessfulDurations(data)
        IN  IF ds = {}
            THEN info.min_duration = 0 /\ info.max_duration = 0
            ELSE /\ info.min_duration = SetMin(ds)
                 /\ info.max_duration = SetMax(ds)

(***************************************************************************)
(* Properties of the counts, the atomic table, the output normalisation    *)
(* and workload["iterations"]                                              *)
(***************************************************************************)
\* the step of extend_results
ExtendResultsStep == ~done /\ done'

\* C11: after extend_results, info.iterations_count is the number of records
\* of data, failed ones included, info.iterations_failed is the number of
\* records whose error is non-empty, and 0 <= iterations_failed <=
\* iterations_count.
C11_IterationCounts ==
    done =>
        /\ info.iterations_count = Len(data)
        /\ info.iterations_failed =
               Cardinality({i \in Indices(data) : data[i].error # NoError})
        /\ 0 <= info.iterations_failed
        /\ info.iterations_failed <= info.iterations_count

\* extend_results has run over one failed and one successful iteration
C11_Witness ==
    /\ done
    /\ Len(data) = 2
    /\ data[1].error # NoError
    /\ data[2].error = NoError
    /\ info.iterations_failed = 1

\* how often name occurs among the atomic actions of one iteration
OccurrenceCount(atomic_actions, name) ==
    Cardinality({k \in DOMAIN atomic_actions : atomic_actions[k].name = name})

\* the sum of finished_at - started_at over the actions called name
RECURSIVE SummedDuration(_, _)
SummedDuration(atomic_actions, name) ==
    IF atomic_actions = <<>> THEN 0
    ELSE LET action == Head(atomic_actions)
         IN  (IF action.name = name
              THEN action.finished_at - action.started_at ELSE 0)
             + SummedDuration(Tail(atomic_actions), name)

ActionNames(atomic_actions) ==
    {atomic_actions[k].name : k \in DOMAIN atomic_actions}

EntryNames(entries) == {entries[k].name : k \in DOMAIN entries}

OneEntryPerName(entries) ==
    \A j, k \in DOMAIN entries : entries[j].name = entries[k].name => j = k

\* C12: for every action name, info.atomic[name].count is the largest
\* occurrence count of the name in one iteration, and min_duration and
\* max_duration are the minimum and the maximum of the iterations' summed
\* durations of the name over exactly the iterations whose count is that
\* largest count.
C12_AtomicAcrossIterations ==
    done =>
        /\ OneEntryPerName(info.atomic)
        /\ EntryNames(info.atomic) =
               UNION {ActionNames(data[i].atomic_actions) : i \in Indices(data)}
        /\ \A k \in DOMAIN info.atomic :
              LET entry == info.atomic[k]
                  counts == {OccurrenceCount(data[i].atomic_actions, entry.name) :
                                i \in Indices(data)}
                  largest == SetMax(counts)
                  durations ==
                      {SummedDuration(data[i].atomic_actions, entry.name) :
                          i \in {j \in Indices(data) :
                                    OccurrenceCount(data[j].atomic_actions,
                                                    entry.name) = largest}}
              IN  /\ entry.count = largest
                  /\ entry.min_duration = SetMin(durations)
                  /\ entry.max_duration = SetMax(durations)

\* two iterations run the same action twice each, with different summed
\* durations
C12_Witness ==
    /\ done
    /\ \E k \in DOMAIN info.atomic :
          /\ info.atomic[k].count = 2
          /\ info.atomic[k].min_duration < info.atomic[k].max_duration

\* the first position of name among the atomic actions
FirstOccurrence(atomic_actions, name) ==
    SetMin({k \in DOMAIN atomic_actions : atomic_actions[k].name = name})

\* C17: _merge_atomic returns one entry per distinct action name, whose
\* count is the number of actions of that name and whose duration is the
\* sum of their finished_at - started_at, the entries in the order of each
\* name's first occurrence.
C17_MergeAtomicWithinIteration ==
    done =>
        \A i \in Indices(data) :
            LET atomic_actions == data[i].atomic_actions
                merged_atomic == merged[i]
            IN  /\ OneEntryPerName(merged_atomic)
                /\ EntryNames(merged_atomic) = ActionNames(atomic_actions)
                /\ \A k \in DOMAIN merged_atomic :
                      /\ merged_atomic[k].count =
                             OccurrenceCount(atomic_actions,
                                             merged_atomic[k].name)
                      /\ merged_atomic[k].duration =
                             SummedDuration(atomic_actions,
                                            merged_atomic[k].name)
                /\ \A j, k \in DOMAIN merged_atomic :
                      j < k =>
                          FirstOccurrence(atomic_actions, merged_atomic[j].name)
                          < FirstOccurrence(atomic_actions,
                                            merged_atomic[k].name)

\* the iteration ran b, a, b: two names, one of them twice
C17_Witness ==
    /\ done
    /\ Len(data[1].atomic_actions) = 3
    /\ data[1].atomic_actions[1].name = "b"
    /\ data[1].atomic_actions[2].name = "a"
    /\ data[1].atomic_actions[3].name = "b"
    /\ Len(merged[1]) = 2

\* the records of q whose timestamp is t, in q's order
WithTimestamp(q, t) ==
    LET Test(x) == x.timestamp = t
    IN  SelectSeq(q, Test)

Count(q, x) == Cardinality({i \in DOMAIN q : q[i] = x})

IsPermutation(p, q) ==
    /\ Len(p) = Len(q)
    /\ \A i \in DOMAIN q : Count(p, q[i]) = Count(q, q[i])

\* C13 as stated: workload["iterations"] is a permutation of the records of
\* data in which each record's timestamp is strictly less than the next
\* one's.
C13_IterationsStrictlyAscending ==
    done =>
        /\ IsPermutation(iterations.records, data)
        /\ \A i \in 1..(Len(iterations.records) - 1) :
              iterations.records[i].timestamp
              < iterations.records[i + 1].timestamp

\* C13: workload["iterations"] is a permutation of the records of data in
\* which no record's timestamp is greater than the next one's, and records
\* of equal timestamp keep the order they have in data.
C13_IterationsAscendingStable ==
    done =>
        /\ IsPermutation(iterations.records, data)
        /\ \A i \in 1..(Len(iterations.records) - 1) :
              iterations.records[i].timestamp
              <= iterations.records[i + 1].timestamp
        /\ \A t \in 0..MaxTimestamp :
              WithTimestamp(iterations.records, t) = WithTimestamp(data, t)

\* data held a later record before an earlier one
C13_Witness ==
    /\ done
    /\ Len(data) = 2
    /\ data[1].timestamp > data[2].timestamp
    /\ iterations.records[1] = data[2]

\* the chart extend_results makes of a record's legacy scenario_output
HasLegacyData(itr) ==
    HasKey(itr, "scenario_output") /\ DOMAIN itr.scenario_output.data # {}

\* C14 as stated: extend_results leaves data as it was: the same records in
\* the same order, each with the fields and values it had.
C14_DataUntouched == [][data' = data]_vars

\* C14: extend_results keeps the records of data in their order and every
\* field other than output and scenario_output as it was; a record that has
\* an output is left as it was, a record without one gains an output, and
\* it loses its scenario_output exactly when that one's data is non-empty.
C14_DataChangesOnlyOutput ==
    [][ExtendResultsStep =>
          /\ Len(data') = Len(data)
          /\ \A i \in Indices(data) :
                /\ DOMAIN data'[i] \ {"output", "scenario_output"} =
                       DOMAIN data[i] \ {"output", "scenario_output"}
                /\ \A k \in DOMAIN data[i] \ {"output", "scenario_output"} :
                      data'[i][k] = data[i][k]
                /\ HasKey(data[i], "output") => data'[i] = data[i]
                /\ ~HasKey(data[i], "output") =>
                      /\ HasKey(data'[i], "output")
                      /\ HasKey(data'[i], "scenario_output") <=>
                             (HasKey(data[i], "scenario_output")
                              /\ ~HasLegacyData(data[i]))
                      /\ HasKey(data'[i], "scenario_output") =>
                             data'[i].scenario_output = data[i].scenario_output
      ]_vars

\* one record lost its scenario_output to a new output, another kept both
\* the output and the scenario_output it had
C14_Witness ==
    /\ done
    /\ Len(data) = 2
    /\ ~HasKey(data[1], "scenario_output")
    /\ data[1].output.additive # <<>>
    /\ data[1].output # SomeOutput
    /\ HasLegacyData(data[2])
    /\ data[2].output = SomeOutput

\* C15 as stated: after extend_results every record has an output with the
\* additive and complete lists, both empty when it had no output and no
\* legacy data; and every record whose scenario_output.data was non-empty,
\* whether or not it had an output, has one more additive entry, titled
\* "Scenario output" and holding the legacy pairs, and no scenario_output.
C15_LegacyOutputAlwaysConverted ==
    [][ExtendResultsStep =>
          \A i \in Indices(data) :
              LET before == IF HasKey(data[i], "output")
                            THEN data[i].output ELSE EmptyOutput
              IN  /\ HasKey(data'[i], "output")
                  /\ {"additive", "complete"} \subseteq DOMAIN data'[i].output
                  /\ (~HasKey(data[i], "output") /\ ~HasLegacyData(data[i]))
                        => data'[i].output = EmptyOutput
                  /\ HasLegacyData(data[i]) =>
                        /\ data'[i].output.additive =
                               Append(before.additive,
                                      ScenarioOutputChart(
                                          data[i].scenario_output.data))
                        /\ data'[i].output.complete = before.complete
                        /\ ~HasKey(data'[i], "scenario_output")
      ]_vars

\* C15: after extend_results every record has an output with the additive
\* and complete lists, both empty when it had no output and no legacy data;
\* every record that had no output and whose scenario_output.data was
\* non-empty has the one additive entry titled "Scenario output" holding
\* the legacy pairs, and no scenario_output; a record that had an output
\* keeps it and its scenario_output as they were.
C15_LegacyOutputConvertedWithoutOutput ==
    [][ExtendResultsStep =>
          \A i \in Indices(data) :
              /\ HasKey(data'[i], "output")
              /\ {"additive", "complete"} \subseteq DOMAIN data'[i].output
              /\ (~HasKey(data[i], "output") /\ ~HasLegacyData(data[i]))
                    => data'[i].output = EmptyOutput
              /\ (~HasKey(data[i], "output") /\ HasLegacyData(data[i])) =>
                    /\ data'[i].output.additive =
                           <<ScenarioOutputChart(data[i].scenario_output.data)>>
                    /\ data'[i].output.additive[1].title = "Scenario output"
                    /\ data'[i].output.additive[1].items =
                           items(data[i].scenario_output.data)
                    /\ data'[i].output.complete = <<>>
                    /\ ~HasKey(data'[i], "scenario_output")
              /\ HasKey(data[i], "output") => data'[i] = data[i]
      ]_vars

\* a record's legacy data became its only additive entry
C15_Witness ==
    /\ done
    /\ \E i \in Indices(data) :
          /\ ~HasKey(data[i], "scenario_output")
          /\ Len(data[i].output.additive) = 1
          /\ data[i].output.additive[1].title = "Scenario output"
          /\ data[i].output.additive[1].items = {<<"x", 1>>}

C18_AbortFollowsStateGraph ==
    [][\A c \in Persisted :
          (AbortUpdate(c) /\ call'[c].result = Ok)
          => <<dbStatus, dbStatus'>> \in StateGraph]_vars

\* C19: once the stored status is ABORTING no abort changes it, and when a
\* soft abort and a hard abort of a RUNNING task, run concurrently with no
\* other writer, have both returned, the stored status is ABORTING.
C19_HardAbortNeverDowngraded ==
    /\ [][dbStatus = ABORTING => dbStatus' = ABORTING]_vars
    /\ [](\A c, d \in Persisted :
            (/\ c # d /\ pc[c] = "idle" /\ pc[d] = "idle"
             /\ call[c].op = "abort" /\ call[c].soft
             /\ call[d].op = "abort" /\ ~call[d].soft
             /\ (call[c].current_status = RUNNING
                 \/ call[d].current_status = RUNNING))
            => dbStatus = ABORTING)

\* both aborts read RUNNING, the hard one wrote first and the soft one lost
C19_Witness ==
    \E c, d \in Persisted :
        /\ c # d /\ pc[c] = "idle" /\ pc[d] = "idle"
        /\ call[c].op = "abort" /\ call[c].soft
        /\ call[c].current_status = RUNNING
        /\ call[c].result = StatusConflict
        /\ call[d].op = "abort" /\ ~call[d].soft
        /\ call[d].current_status = RUNNING /\ call[d].result = Ok
        /\ dbStatus = ABORTING

\* the statuses abort neither refuses nor can update from
AbortFallsThrough == {VALIDATED, VALIDATION_FAILED, ABORTING}

\* C20: when the stored status is VALIDATED, VALIDATION_FAILED or ABORTING,
\* abort raises neither the unsupported-stage nor the already-finished
\* error at its status check but goes on to the conditional update; with
\* the status still the one read, that update fails, abort ends in the
\* conflict error and the stored status stays as it was.
C20_AbortFallsThroughToConflict ==
    [][\A c \in Persisted :
          /\ ((\E soft \in BOOLEAN : AbortRead(c, soft))
              /\ dbStatus \in AbortFallsThrough)
                => /\ call'[c].result = Pending
                   /\ pc'[c] = "update"
                   /\ dbStatus' = dbStatus
          /\ (/\ AbortUpdate(c)
              /\ call[c].current_status \in AbortFallsThrough
              /\ dbStatus = call[c].current_status)
                => /\ call'[c].result = StatusConflict
                   /\ call'[c].db = <<"task_get_status", "task_update_status">>
                   /\ pc'[c] = "idle"
                   /\ dbStatus' = dbStatus
      ]_vars

\* an abort of a VALIDATED task has ended in the conflict error
C20_Witness ==
    \E c \in Persisted :
        /\ pc[c] = "idle" /\ call[c].op = "abort"
        /\ call[c].current_status = VALIDATED
        /\ call[c].result = StatusConflict
        /\ dbStatus = VALIDATED

(***************************************************************************)
(* Properties of the in-memory record                                      *)
(***************************************************************************)
\* C21: a successful update_status with a non-empty allowed set, and so a
\* successful abort, changes the stored status only: the object's in-memory
\* record, its cached status included, is what it was before the call;
\* an unconditional update_status replaces the in-memory record with the
\* record the store returns.
C21_ConditionalUpdateLeavesMemory ==
    [][\A c \in Persisted :
          /\ (AbortUpdate(c) /\ call'[c].result = Ok)
                => /\ task'[c] = task[c]
                   /\ dbStatus' = AbortNewStatus(call[c].soft)
          /\ \A status \in Statuses, allowed \in AllowedInputs :
                (/\ call'[c].op = "update_status"
                 /\ call'[c].result = Ok
                 /\ UpdateStatus(c, status, allowed))
                => IF allowed.given /\ allowed.set # {}
                   THEN /\ call'[c].db = <<"task_update_status">>
                        /\ task'[c] = task[c]
                        /\ dbStatus' = status
                   ELSE /\ call'[c].db = <<"task_update">>
                        /\ task'[c] = dbStatus'
                        /\ dbStatus' = status
      ]_vars

\* an abort has returned normally and the object still holds RUNNING while
\* the store holds ABORTING
C21_Witness ==
    \E c \in Persisted :
        /\ pc[c] = "idle" /\ call[c].op = "abort" /\ call[c].result = Ok
        /\ call[c].current_status = RUNNING
        /\ task[c] = RUNNING
        /\ dbStatus = ABORTING

(***************************************************************************)
(* Properties of extend_results under reordering and repetition            *)
(***************************************************************************)
\* the orderings of the positions of q, and q in such an ordering
Orderings(q) ==
    {p \in [DOMAIN q -> DOMAIN q] : \A i, j \in DOMAIN q : p[i] = p[j] => i = j}
Reordered(q, p) == [i \in DOMAIN q |-> q[p[i]]]

\* the entries of an OrderedDict without their order
Entries(entries) == {entries[k] : k \in DOMAIN entries}

\* C22: for every ordering of the records of data, extend_results gives for
\* every action name the same min_duration, max_duration and count, and
\* the same iterations_count and iterations_failed.
C22_AtomicOrderIndependent ==
    done =>
        \A p \in Orderings(data) :
            LET other == WorkloadInfo(Reordered(data, p))
            IN  /\ Entries(other.atomic) = Entries(info.atomic)
                /\ OneEntryPerName(other.atomic)
                /\ other.iterations_count = info.iterations_count
                /\ other.iterations_failed = info.iterations_failed

\* two records, one of them failed, whose other order gives the atomic
\* table its names in another order
C22_Witness ==
    /\ done
    /\ Len(data) = 2
    /\ info.iterations_failed = 1
    /\ Len(info.atomic) = 2
    /\ WorkloadInfo(<<data[2], data[1]>>).atomic # info.atomic

\* the durations of the records whose error is empty, None left out
DurationsOfSuccessful(records) ==
    {records[i].duration :
        i \in {j \in Indices(records) :
                  /\ records[j].error = NoError
                  /\ records[j].duration # NoDuration}}

\* C23: for data of non-negative durations in any order, info.min_duration
\* <= info.max_duration, and each of the two is 0 or the duration of a
\* record of data whose error is empty.
C23_MinNotAboveMax ==
    done =>
        /\ info.min_duration <= info.max_duration
        /\ info.min_duration \in {0} \cup DurationsOfSuccessful(data)
        /\ info.max_duration \in {0} \cup DurationsOfSuccessful(data)

\* a successful record of duration 0 came before one of a positive
\* duration: the running minimum started again at the second record
C23_Witness ==
    /\ done
    /\ Len(data) = 2
    /\ data[1].error = NoError /\ data[2].error = NoError
    /\ data[1].duration = 0
    /\ data[2].duration > 0
    /\ info.min_duration = data[2].duration
    /\ info.max_duration = data[2].duration

\* C24: extend_results(serializable=True) applied to the task that
\* extend_results(serializable=True) returned gives the same info, the same
\* iterations and the same output of every record as the first application:
\* a converted scenario_output is not converted or appended again.
C24_ExtendResultsIdempotent ==
    [][(/\ done
        /\ iterations.kind = "list"
        /\ ExtendResults(TRUE))
       => /\ info' = info
          /\ iterations' = iterations
          /\ data' = data
          /\ merged' = merged]_vars

\* extend_results has run again on a task with a failed record and a
\* record whose scenario_output it had converted
C24_Witness ==
    /\ reapplied
    /\ iterations.kind = "list"
    /\ info.iterations_failed > 0
    /\ \E i \in Indices(data) :
          /\ ~HasKey(data[i], "scenario_output")
          /\ Len(data[i].output.additive) = 1
          /\ data[i].output.additive[1].title = "Scenario output"

============================================================================
